---- MODULE Spec2Model ----
(***************************************************************************)
(* MEGAID (src/megaid/megaid.py): compound identifiers made of a snowflake *)
(* number and two HS256-signed tokens, "<megaid>:<immutable>:<mutable>".   *)
(*                                                                         *)
(* Python integers are unbounded, and the snowflakes need up to 65 bits,   *)
(* so a number is the sequence of its binary digits, least significant     *)
(* first, with no leading zero digit (zero is the empty sequence).  A      *)
(* string is a sequence of pieces of text: the characters "0".."9", ":"    *)
(* and "x", and the text of one signed token, which holds no ":"           *)
(* (base64url and "." only) and is kept as one piece.                      *)
(***************************************************************************)
EXTENDS Integers, Sequences, FiniteSets, TLC

\* The longest chain of updates applied to one identifier.
MaxUpdates == 2

VARIABLES engine, clock, cur, hist, last

vars == <<engine, clock, cur, hist, last>>

-----------------------------------------------------------------------------
(* Unbounded non-negative integers, as Python has them.                     *)

Zero == <<>>

\* Cuts the zero digits at the most significant end.
Norm(s) ==
    IF \A i \in 1..Len(s) : s[i] = 0 THEN <<>>
    ELSE SubSeq(s, 1, CHOOSE i \in 1..Len(s) :
                        /\ s[i] = 1
                        /\ \A j \in (i + 1)..Len(s) : s[j] = 0)

\* Binary digit i (from 0) of x.
Bit(x, i) == IF i + 1 <= Len(x) THEN x[i + 1] ELSE 0

\* x << n
ShiftLeft(x, n) == IF x = <<>> THEN <<>> ELSE [i \in 1..n |-> 0] \o x

\* x >> n
ShiftRight(x, n) == IF Len(x) <= n THEN <<>> ELSE SubSeq(x, n + 1, Len(x))

\* x | y
BitOr(x, y) ==
    LET n == IF Len(x) >= Len(y) THEN Len(x) ELSE Len(y)
    IN  [i \in 1..n |-> IF Bit(x, i - 1) = 1 \/ Bit(y, i - 1) = 1 THEN 1 ELSE 0]

\* x & y
BitAnd(x, y) ==
    LET n == IF Len(x) <= Len(y) THEN Len(x) ELSE Len(y)
    IN  Norm([i \in 1..n |-> IF x[i] = 1 /\ y[i] = 1 THEN 1 ELSE 0])

\* (1 << n) - 1
MaskOnes(n) == [i \in 1..n |-> 1]

\* 1 << n
Pow2(n) == [i \in 1..n |-> 0] \o <<1>>

\* x < y
Less(x, y) ==
    IF Len(x) # Len(y) THEN Len(x) < Len(y)
    ELSE \E i \in 1..Len(x) :
            /\ x[i] < y[i]
            /\ \A j \in (i + 1)..Len(x) : x[j] = y[j]

-----------------------------------------------------------------------------
(* Strings.                                                                 *)

Char(c) == [ch |-> c]

Colon == Char(":")

DigitChars == <<"0", "1", "2", "3", "4", "5", "6", "7", "8", "9">>

Reverse(s) == [i \in 1..Len(s) |-> s[Len(s) + 1 - i]]

\* Long division by ten of the binary digits lo..hi of x, entered with the
\* remainder r left by the digits above hi: the quotient's digits hi..lo,
\* most significant first, and the remainder left.
RECURSIVE DivMod10(_, _, _, _)
DivMod10(x, lo, hi, r) ==
    IF lo = hi
    THEN [q |-> <<(2 * r + x[lo]) \div 10>>, r |-> (2 * r + x[lo]) % 10]
    ELSE LET mid == (lo + hi) \div 2
             upper == DivMod10(x, mid + 1, hi, r)
             lower == DivMod10(x, lo, mid, upper.r)
         IN  [q |-> upper.q \o lower.q, r |-> lower.r]

\* The decimal digits of x > 0, most significant first: the last is x % 10,
\* those before it are the digits of x // 10.
DecimalDigits[x \in Seq({0, 1})] ==
    IF x = Zero THEN <<>>
    ELSE LET d == DivMod10(x, 1, Len(x), 0)
         IN  DecimalDigits[Norm(Reverse(d.q))] \o <<Char(DigitChars[d.r + 1])>>

\* str(n) of an int: its decimal digits.
str_int(x) == IF x = Zero THEN <<Char("0")>> ELSE DecimalDigits[x]

\* s.split(":"): the text before the first ":", between each two that
\* follow one another, and after the last.
split(s) ==
    LET colons == {i \in 1..Len(s) : s[i] = Colon}
        n == Cardinality(colons)
        at(j) == IF j = 0 THEN 0
                 ELSE IF j = n + 1 THEN Len(s) + 1
                 ELSE CHOOSE i \in colons :
                        Cardinality({c \in colons : c <= i}) = j
    IN  [j \in 1..(n + 1) |-> SubSeq(s, at(j - 1) + 1, at(j) - 1)]

\* f"{a}:{b}:{c}"
fstring3(a, b, c) == a \o <<Colon>> \o b \o <<Colon>> \o c

-----------------------------------------------------------------------------
(* Mappings (dict) and None.                                                *)

None == [none |-> TRUE]

EmptyDict == [k \in {} |-> "v"]

\* Python's truth value of an optional dict: None and {} are both false.
Truthy(d) == d # None /\ d # EmptyDict

\* A deviation from d.update(u): the updates replace the dictionary.
dict_update_replaces(d, u) == u

\* d.update(u): the keys of u overwrite, the others stay.
dict_update(d, u) ==
    [k \in DOMAIN d \cup DOMAIN u |-> IF k \in DOMAIN u THEN u[k] ELSE d[k]]

\* d.get(key, default)
dict_get(d, key, default) == IF key \in DOMAIN d THEN d[key] ELSE default

-----------------------------------------------------------------------------
(* PyJWT with HS256.  HMAC-SHA-256 is taken as collision free: a tag is     *)
(* determined by, and determines, the key and the signed payload.           *)

HS256(key, payload) == <<key, payload>>

\* jwt.encode(payload, key, algorithm="HS256"): the token's text.
jwt_encode(payload, key) ==
    <<[jwt |-> [payload |-> payload, sig |-> HS256(key, payload)]]>>

\* jwt.decode(token, key, algorithms=["HS256"]): the payload, or the
\* exception raised.
jwt_decode(token, key) ==
    IF ~(Len(token) = 1 /\ DOMAIN token[1] = {"jwt"})
    THEN [raised |-> "DecodeError"]
    ELSE IF token[1].jwt.sig # HS256(key, token[1].jwt.payload)
    THEN [raised |-> "InvalidSignatureError"]
    ELSE [raised |-> "none", payload |-> token[1].jwt.payload]

-----------------------------------------------------------------------------
(* class MEGAID                                                             *)

BuiltinMetadata == [created_by |-> "MEGAID", version |-> "2.0"]

\* __init__(keys, bit_size, default_metadata)
MEGAID_init(keys, bit_size, default_metadata) ==
    IF ~({"ADMIN", "SHARED"} \subseteq DOMAIN keys)
    THEN [raised |-> "ValueError"]
    ELSE IF bit_size \notin {64, 52, 32}
    THEN [raised |-> "ValueError"]
    ELSE [admin_key |-> keys["ADMIN"],
          shared_key |-> keys["SHARED"],
          bit_size |-> bit_size,
          default_metadata |-> IF Truthy(default_metadata)
                               THEN default_metadata ELSE BuiltinMetadata]

\* random.getrandbits(k): any integer of at most k binary digits; the draws
\* taken here are the least and the greatest.
getrandbits(k, draw) == IF draw = "min" THEN Zero ELSE MaskOnes(k)

RandomDraws == {"min", "max"}

\* A deviation from _create_megaid: the 52-bit branch shifts as the 64-bit
\* branch does.
create_megaid_one_shift(self, timestamp, draw) ==
    IF self.bit_size = 64
    THEN BitOr(ShiftLeft(timestamp, 22), getrandbits(22, draw))
    ELSE IF self.bit_size = 52
    THEN BitOr(ShiftLeft(timestamp, 22), getrandbits(10, draw))
    ELSE BitOr(ShiftLeft(timestamp, 2), getrandbits(2, draw))

\* _create_megaid, with the clock reading and the random draw it takes.
create_megaid(self, timestamp, draw) ==
    IF self.bit_size = 64
    THEN BitOr(ShiftLeft(timestamp, 22), getrandbits(22, draw))
    ELSE IF self.bit_size = 52
    THEN BitOr(ShiftLeft(timestamp, 10), getrandbits(10, draw))
    ELSE BitOr(ShiftLeft(timestamp, 2), getrandbits(2, draw))

\* _decode_megaid: <<timestamp, random_bits>>
decode_megaid(self, megaid) ==
    IF self.bit_size = 64
    THEN <<ShiftRight(megaid, 22), BitAnd(megaid, MaskOnes(22))>>
    ELSE IF self.bit_size = 52
    THEN <<ShiftRight(megaid, 10), BitAnd(megaid, MaskOnes(10))>>
    ELSE <<ShiftRight(megaid, 2), BitAnd(megaid, MaskOnes(2))>>

\* create(immutable_data, mutable_data): the compound ID.
create(self, immutable_data, mutable_data, now, draw) ==
    LET megaid == create_megaid(self, now, draw)
        decoded == decode_megaid(self, megaid)
        idata_payload ==
            [megaid |-> megaid,
             date_created |-> decoded[1],
             random_bits |-> decoded[2],
             immutable_data |-> IF Truthy(immutable_data)
                                THEN immutable_data
                                ELSE self.default_metadata]
        mutable_payload ==
            [date_updated |-> decoded[1],
             mutable_data |-> IF Truthy(mutable_data)
                              THEN mutable_data ELSE EmptyDict]
    IN  fstring3(str_int(megaid),
                 jwt_encode(idata_payload, self.admin_key),
                 jwt_encode(mutable_payload, self.shared_key))

\* read(compound_id): what the call returns (ret, {} on any exception), the
\* exception its handler caught and how many times it called jwt.decode.
read(self, compound_id) ==
    LET parts == split(compound_id)
    IN  IF Len(parts) # 3
        THEN [ret |-> EmptyDict, caught |-> "ValueError", decodes |-> 0]
        ELSE
        LET immutable == jwt_decode(parts[2], self.admin_key)
            mutable == jwt_decode(parts[3], self.shared_key)
        IN  IF immutable.raised # "none"
            THEN [ret |-> EmptyDict, caught |-> immutable.raised, decodes |-> 1]
            ELSE IF mutable.raised # "none"
            THEN [ret |-> EmptyDict, caught |-> mutable.raised, decodes |-> 2]
            ELSE IF ~({"megaid", "date_created", "random_bits", "immutable_data"}
                        \subseteq DOMAIN immutable.payload
                      /\ {"date_updated", "mutable_data"}
                        \subseteq DOMAIN mutable.payload)
            THEN [ret |-> EmptyDict, caught |-> "KeyError", decodes |-> 2]
            ELSE [ret |-> [megaid |-> immutable.payload.megaid,
                           date_created |-> immutable.payload.date_created,
                           date_updated |-> mutable.payload.date_updated,
                           random_bits |-> immutable.payload.random_bits,
                           immutable_data |-> immutable.payload.immutable_data,
                           mutable_data |-> mutable.payload.mutable_data],
                  caught |-> "none", decodes |-> 2]

\* A deviation from update: the immutable token is verified as well, with the
\* ADMIN key.
update_decode_both(self, parts) ==
    LET immutable == jwt_decode(parts[2], self.admin_key)
    IN  IF immutable.raised # "none" THEN immutable
        ELSE jwt_decode(parts[3], self.shared_key)

\* update, lines 187-192: the token update verifies, and the key it uses.
update_decode(self, parts) == jwt_decode(parts[3], self.shared_key)

\* A deviation from update: date_updated is carried over.
update_payload_old_date(mutable_payload, updates, now) ==
    [date_updated |-> mutable_payload.date_updated,
     mutable_data |-> dict_update(dict_get(mutable_payload, "mutable_data",
                                           EmptyDict), updates)]

\* update, lines 193-200: the new mutable payload.
update_payload(mutable_payload, updates, now) ==
    [date_updated |-> now,
     mutable_data |-> dict_update(dict_get(mutable_payload, "mutable_data",
                                           EmptyDict), updates)]

\* A deviation from update: the two tokens change places.
update_result_swapped(megaid, immutable_token, new_mutable_jwt) ==
    fstring3(megaid, new_mutable_jwt, immutable_token)

\* update, line 209: the compound ID returned.
update_result(megaid, immutable_token, new_mutable_jwt) ==
    fstring3(megaid, immutable_token, new_mutable_jwt)

\* update(compound_id, updates): what the call returns (ret, "" on any
\* exception), the exception its handler caught and the jwt.decode calls.
update(self, compound_id, updates, now) ==
    LET parts == split(compound_id)
    IN  IF Len(parts) # 3
        THEN [ret |-> <<>>, caught |-> "ValueError", decodes |-> 0]
        ELSE
        LET mutable == update_decode(self, parts)
        IN  IF mutable.raised # "none"
            THEN [ret |-> <<>>, caught |-> mutable.raised, decodes |-> 1]
            ELSE
            LET new_payload == update_payload(mutable.payload, updates, now)
            IN  [ret |-> update_result(parts[1], parts[2],
                                       jwt_encode(new_payload, self.shared_key)),
                 caught |-> "none", decodes |-> 1]

-----------------------------------------------------------------------------
(* The callers.  The minting engine holds both keys; the shared-key holder  *)
(* is an engine built with the same SHARED key and an ADMIN key that is not *)
(* the minting engine's.                                                    *)

MinterKeys == [ADMIN |-> "admin-secret", SHARED |-> "shared-secret"]

BitSizes == {64, 52, 32}

Parties == {"minter", "shared_holder"}

Engine(p) ==
    IF p = "minter" THEN engine
    ELSE MEGAID_init([ADMIN |-> "invalid-admin-key",
                      SHARED |-> engine.shared_key],
                     engine.bit_size, None)

\* int(time.time() * 1000) at the sampled instants: 3 November 2004, a
\* reading of 41 binary digits as every reading from 2004 to 2039 is, and
\* 15 May 2109, the first reading of 43 binary digits.
ClockReadings == <<Pow2(40), Pow2(42)>>

Now == ClockReadings[clock]

\* The metadata the callers pass.
ImmutableArgs == {None, EmptyDict, [k |-> "v"]}

MutableArgs == {None, EmptyDict, [k |-> "v", x |-> "w"]}

UpdateArgs == {EmptyDict, [k |-> "w"], [k |-> "v", x |-> "v"]}

-----------------------------------------------------------------------------
(* What a caller may hand to read and update instead of the compound ID it  *)
(* was given: the ID itself, or the ID with one segment altered by someone  *)
(* who holds neither key, or with a segment dropped or added.               *)

ForgedData == [role |-> "admin"]

AlteredPayload(p) ==
    IF "immutable_data" \in DOMAIN p
    THEN [p EXCEPT !.immutable_data = ForgedData]
    ELSE [p EXCEPT !.mutable_data = ForgedData]

\* The token's payload altered under the signature it had.
PayloadAltered(token) ==
    <<[jwt |-> [payload |-> AlteredPayload(token[1].jwt.payload),
                sig |-> token[1].jwt.sig]]>>

\* The token's payload altered and signed again with another key.
Forged(token) == jwt_encode(AlteredPayload(token[1].jwt.payload), "attacker-key")

\* Text that is no signed token.
Garbled == <<Char("x")>>

Intact == "intact"

TokenTampers ==
    {"immutable_payload", "immutable_forged", "immutable_garbled",
     "mutable_payload", "mutable_forged", "mutable_garbled"}

SnowflakeTampers == {"snowflake_number", "snowflake_text"}

SegmentTampers == {"truncated", "extended"}

Inputs == {Intact} \cup TokenTampers \cup SnowflakeTampers \cup SegmentTampers

Variant(c, v) ==
    LET p == split(c)
    IN  CASE v = "intact" -> c
          [] v = "immutable_payload" -> fstring3(p[1], PayloadAltered(p[2]), p[3])
          [] v = "immutable_forged" -> fstring3(p[1], Forged(p[2]), p[3])
          [] v = "immutable_garbled" -> fstring3(p[1], Garbled, p[3])
          [] v = "mutable_payload" -> fstring3(p[1], p[2], PayloadAltered(p[3]))
          [] v = "mutable_forged" -> fstring3(p[1], p[2], Forged(p[3]))
          [] v = "mutable_garbled" -> fstring3(p[1], p[2], Garbled)
          [] v = "snowflake_number" -> fstring3(<<Char("7")>>, p[2], p[3])
          [] v = "snowflake_text" -> fstring3(<<Char("x")>>, p[2], p[3])
          [] v = "truncated" -> p[1] \o <<Colon>> \o p[2]
          [] v = "extended" -> c \o <<Colon>> \o Garbled

\* Who is handed what: the minting engine any input, the shared-key holder
\* the ID as it is; an altered input is updated with one of the updates.
Calls == {c \in Parties \X Inputs : c[1] = "minter" \/ c[2] = Intact}

UpdateCalls ==
    {c \in Calls \X UpdateArgs : c[1][2] = Intact \/ c[2] = [k |-> "w"]}

-----------------------------------------------------------------------------
(* The state: the minting engine, the clock, the compound ID the callers    *)
(* hold (cur, "" before create), the record of how it came about (hist:     *)
(* the ID create returned, the clock reading and the random draw create     *)
(* took, the mutable data it was given, the updates applied since, in       *)
(* order, and the clock reading the last of them took) and the call that    *)
(* has just returned (last).  The callers act one call at a time.           *)

NoCall ==
    [op |-> "none", by |-> "minter", input |-> Intact, args |-> <<>>,
     out |-> <<>>, caught |-> "none", decodes |-> 0]

Idle == last.op = "none"

Init ==
    /\ engine \in {MEGAID_init(MinterKeys, b, None) : b \in BitSizes}
    /\ clock = 1
    /\ cur = <<>>
    /\ hist = [origin |-> <<>>, created_at |-> Zero, draw |-> "min",
               m0 |-> EmptyDict, updates |-> <<>>, updated_at |-> Zero]
    /\ last = NoCall

\* engine.create(immutable_data, mutable_data).  A behaviour follows one
\* compound ID from its creation on.
Create(immutable_data, mutable_data, draw) ==
    LET id == create(engine, immutable_data, mutable_data, Now, draw)
    IN  /\ Idle
        /\ cur = <<>>
        /\ cur' = id
        /\ hist' = [origin |-> id, created_at |-> Now, draw |-> draw,
                    m0 |-> IF mutable_data = None THEN EmptyDict
                           ELSE mutable_data,
                    updates |-> <<>>, updated_at |-> Now]
        /\ last' = [op |-> "create", by |-> "minter", input |-> Intact,
                    args |-> <<immutable_data, mutable_data>>,
                    out |-> id, caught |-> "none", decodes |-> 0]
        /\ UNCHANGED <<engine, clock>>

\* Engine(p).read(Variant(cur, v))
Read(p, v) ==
    /\ Idle
    /\ cur # <<>>
    /\ LET r == read(Engine(p), Variant(cur, v))
       IN  last' = [op |-> "read", by |-> p, input |-> v, args |-> <<>>,
                    out |-> r.ret, caught |-> r.caught, decodes |-> r.decodes]
    /\ UNCHANGED <<engine, clock, cur, hist>>

\* Engine(p).update(Variant(cur, v), updates); the callers go on with the
\* ID returned for the ID they were given.
Update(p, v, updates) ==
    /\ Idle
    /\ cur # <<>>
    /\ v = Intact => Len(hist.updates) < MaxUpdates
    /\ LET r == update(Engine(p), Variant(cur, v), updates, Now)
           kept == v = Intact /\ r.ret # <<>>
       IN  /\ cur' = IF kept THEN r.ret ELSE cur
           /\ hist' = IF kept
                      THEN [hist EXCEPT !.updates = Append(@, updates),
                                        !.updated_at = Now]
                      ELSE hist
           /\ last' = [op |-> "update", by |-> p, input |-> v, args |-> updates,
                       out |-> r.ret, caught |-> r.caught, decodes |-> r.decodes]
    /\ UNCHANGED <<engine, clock>>

\* The caller has looked at what the call returned and goes on.
Proceed ==
    /\ ~Idle
    /\ last' = NoCall
    /\ UNCHANGED <<engine, clock, cur, hist>>

\* The wall clock moves on to the next sampled instant.
Tick ==
    /\ Idle
    /\ clock < Len(ClockReadings)
    /\ clock' = clock + 1
    /\ UNCHANGED <<engine, cur, hist, last>>

\* The wall clock is set back (time.time() is not monotonic).
ClockSetBack ==
    /\ Idle
    /\ clock > 1
    /\ clock' = clock - 1
    /\ UNCHANGED <<engine, cur, hist, last>>

Next ==
    \/ \E i \in ImmutableArgs, m \in MutableArgs, d \in RandomDraws : Create(i, m, d)
    \/ \E c \in Calls : Read(c[1], c[2])
    \/ \E c \in UpdateCalls : Update(c[1][1], c[1][2], c[2])
    \/ Proceed
    \/ Tick
    \/ ClockSetBack

Spec == Init /\ [][Next]_vars

-----------------------------------------------------------------------------
(* The properties.  They speak of the ID the callers hold (cur), of what    *)
(* the minting engine reads in it, and of the call that has just returned.  *)

Reads(id) == read(engine, id).caught = "none"

View(id) == read(engine, id).ret

Segments(id) == split(id)

\* The input the call that has just returned was given.
GivenInput == Variant(cur, last.input)

\* The width of the random field for each bit size.
SaltWidth(b) == CASE b = 64 -> 22 [] b = 52 -> 10 [] b = 32 -> 2

\* The updates of us laid over m0 from the first to the last: a key has the
\* value of the last update that holds it, and the value of m0 if none does.
Holders(us, k) == {i \in 1..Len(us) : k \in DOMAIN us[i]}

LastHolder(us, k) ==
    CHOOSE i \in Holders(us, k) : \A j \in Holders(us, k) : j <= i

LeftToRight(m0, us) ==
    [k \in DOMAIN m0 \cup UNION {DOMAIN us[i] : i \in 1..Len(us)} |->
        IF Holders(us, k) = {} THEN m0[k] ELSE us[LastHolder(us, k)][k]]

\* The updates applied before the last one.
EarlierUpdates == SubSeq(hist.updates, 1, Len(hist.updates) - 1)

\* C1: update returns an ID whose first and second segments are those of
\* the ID it was given: the ID held after any chain of updates has the
\* snowflake and the immutable token create returned, and for any input of
\* three segments whose mutable token verifies, the result has three
\* segments, the first two of them those of the input.
C1_UpdatePreservesSegments ==
    /\ cur # <<>> =>
          /\ Len(Segments(cur)) = 3
          /\ Segments(cur)[1] = Segments(hist.origin)[1]
          /\ Segments(cur)[2] = Segments(hist.origin)[2]
    /\ (last.op = "update" /\ last.input = Intact) =>
          /\ last.out # <<>>
          /\ last.out = cur
    /\ (last.op = "update" /\ last.caught = "none") =>
          /\ last.out # <<>>
          /\ Len(Segments(last.out)) = 3
          /\ Segments(last.out)[1] = Segments(IF last.input = Intact
                                              THEN hist.origin ELSE GivenInput)[1]
          /\ Segments(last.out)[2] = Segments(IF last.input = Intact
                                              THEN hist.origin ELSE GivenInput)[2]

C1_Witness ==
    /\ last.op = "update"
    /\ last.input = Intact
    /\ Len(hist.updates) >= 2
    /\ cur # hist.origin

\* C2: an engine that holds the SHARED key and not the minter's ADMIN key
\* updates an ID: the call returns an ID, verifies one token only, and the
\* minting engine reads in the result the mutable data of before with the
\* updates laid over them.
C2_SharedKeySuffices ==
    (last.op = "update" /\ last.by = "shared_holder" /\ last.input = Intact) =>
        /\ Engine("shared_holder").shared_key = engine.shared_key
        /\ Engine("shared_holder").admin_key # engine.admin_key
        /\ last.out # <<>>
        /\ last.caught = "none"
        /\ last.decodes = 1
        /\ Reads(last.out)
        /\ LET before == LeftToRight(hist.m0, EarlierUpdates)
               after == View(last.out).mutable_data
           IN  /\ DOMAIN after = DOMAIN before \cup DOMAIN last.args
               /\ \A k \in DOMAIN after :
                     after[k] = IF k \in DOMAIN last.args
                                THEN last.args[k] ELSE before[k]

C2_Witness ==
    /\ last.op = "update"
    /\ last.by = "shared_holder"
    /\ last.input = Intact
    /\ last.args = [k |-> "w"]
    /\ hist.m0 = [k |-> "v", x |-> "w"]
    /\ last.out # <<>>

\* C6: the snowflake of a minted ID is the clock reading shifted left by the
\* width of the random field, with the random bits in the digits below; the
\* random bits fit the width; _decode_megaid returns the clock reading and
\* the random bits, which are the date_created and random_bits read.
C6_CodecRoundTrip ==
    cur # <<>> =>
        /\ Reads(cur)
        /\ LET w == SaltWidth(engine.bit_size)
               salt == getrandbits(w, hist.draw)
               megaid == View(cur).megaid
           IN  /\ Len(salt) <= w
               /\ \A i \in 0..(Len(megaid) + Len(hist.created_at) + w) :
                     Bit(megaid, i) = IF i < w THEN Bit(salt, i)
                                      ELSE Bit(hist.created_at, i - w)
               /\ decode_megaid(engine, megaid) = <<hist.created_at, salt>>
               /\ View(cur).date_created = hist.created_at
               /\ View(cur).random_bits = salt

C6_Witness ==
    /\ last.op = "create"
    /\ engine.bit_size = 52
    /\ hist.draw = "max"
    /\ View(cur).random_bits = MaskOnes(10)

\* C8: after a chain of updates the mutable data read are the mutable data
\* create was given with the updates laid over them from the first to the
\* last; an update by {} leaves them as they were.
C8_UpdatesMergeInOrder ==
    /\ cur # <<>> =>
          /\ Reads(cur)
          /\ View(cur).mutable_data = LeftToRight(hist.m0, hist.updates)
    /\ (last.op = "update" /\ last.input = Intact /\ last.args = EmptyDict) =>
          /\ Reads(last.out)
          /\ View(last.out).mutable_data = LeftToRight(hist.m0, EarlierUpdates)

C8_Witness ==
    /\ last.op = "update"
    /\ hist.m0 = [k |-> "v", x |-> "w"]
    /\ hist.updates = <<[k |-> "w"], [k |-> "v", x |-> "v"]>>
    /\ View(cur).mutable_data = [k |-> "v", x |-> "v"]

\* C9, as amended: in every ID of a chain date_created is the clock reading
\* create took, and date_updated is the clock reading the latest update
\* took, that of create if there was no update.
C9_DatesAreClockReadings ==
    cur # <<>> =>
        /\ Reads(cur)
        /\ View(cur).date_created = hist.created_at
        /\ View(cur).date_updated = hist.updated_at
        /\ hist.updates = <<>> => hist.updated_at = hist.created_at
        /\ last.op = "update" /\ last.input = Intact => hist.updated_at = Now

\* An update in the millisecond of create: the dates are equal.
C9_Witness ==
    /\ last.op = "update"
    /\ last.input = Intact
    /\ Len(hist.updates) >= 1
    /\ View(cur).date_updated = View(cur).date_created

\* C9, as stated: after one or more updates date_updated is greater than
\* date_created, and date_created is the same in every ID of the chain.
C9_DateUpdatedIsLater ==
    cur # <<>> =>
        /\ Reads(cur)
        /\ View(cur).date_created = hist.created_at
        /\ Len(hist.updates) >= 1 =>
              Less(View(cur).date_created, View(cur).date_updated)

\* C3: read of an ID whose immutable or mutable token was altered fails
\* with a signature or decoding error, and what the caller gets is not the
\* empty mapping.
C3_TamperingIsReported ==
    (last.op = "read" /\ last.input \in TokenTampers) =>
        /\ last.caught \in {"InvalidSignatureError", "DecodeError"}
        /\ last.out # EmptyDict

\* C4: read and update of an input that has not three segments fail before
\* any token is verified, and what the caller gets is neither the empty
\* mapping nor the empty string.
C4_MalformedIsReported ==
    (last.op \in {"read", "update"} /\ last.input \in SegmentTampers) =>
        /\ Len(Segments(GivenInput)) # 3
        /\ last.decodes = 0
        /\ last.caught = "ValueError"
        /\ IF last.op = "read" THEN last.out # EmptyDict ELSE last.out # <<>>

\* C5: read of the ID create returned shows the immutable and the mutable
\* data create was given, the empty mapping included; the default metadata
\* and the empty mapping stand in only for data that were not given.
C5_CreateReadRoundTrip ==
    last.op = "create" =>
        /\ Reads(last.out)
        /\ View(last.out).immutable_data =
              IF last.args[1] = None THEN engine.default_metadata
              ELSE last.args[1]
        /\ View(last.out).mutable_data =
              IF last.args[2] = None THEN EmptyDict ELSE last.args[2]

\* C7: the snowflake of a minted ID has no more binary digits than the bit
\* size of the engine, and its clock reading no more than the bit size less
\* the width of the random field.
C7_SnowflakeFitsBitSize ==
    cur # <<>> =>
        /\ Reads(cur)
        /\ Segments(cur)[1] = str_int(View(cur).megaid)
        /\ Len(View(cur).megaid) <= engine.bit_size
        /\ Len(View(cur).date_created)
              <= engine.bit_size - SaltWidth(engine.bit_size)

\* C10: where read returns a view, the megaid of the view is the number
\* written in the first segment of the ID read; and the first segment of an
\* ID update returns is the megaid signed in its immutable token.
C10_IdentityBinding ==
    /\ (last.op = "read" /\ last.caught = "none") =>
          Segments(GivenInput)[1] = str_int(last.out.megaid)
    /\ (last.op = "update" /\ last.caught = "none" /\ Reads(last.out)) =>
          Segments(last.out)[1] = str_int(View(last.out).megaid)

====
